---- MODULE Spec2Model ----
(***************************************************************************)
(* Stage orchestration of the multi-agent RAG pipeline: the three stage    *)
(* graphs (graphs/team1_graph.py, team2_graph.py, team3_graph.py), their   *)
(* worker and evaluator nodes (agents/team*_agents.py) and the manager of   *)
(* the super graph (graphs/super_graph.py), over the shared AgentState     *)
(* (state.py).                                                             *)
(*                                                                         *)
(* Execution model (LangGraph StateGraph).  A node is a function from the  *)
(* current state to an update dictionary.  Only the keys of the returned   *)
(* dictionary are written to the state, each through the reducer its       *)
(* channel declares in AgentState (add_messages, list_concat, or plain     *)
(* overwrite).  The dictionary a node or a router receives is a copy built *)
(* for that call: an assignment such as  state["team1_retries"] = n  made  *)
(* inside a node or a router changes that copy only and is not part of the *)
(* update.  Each node below is therefore an operator  node(S, input)  that *)
(* yields the returned dictionary, and an action that commits it.          *)
(*                                                                         *)
(* The language-model and retrieval collaborators are nondeterministic     *)
(* inputs of the actions.  Scores are in hundredths (0.5 is 50).           *)
(***************************************************************************)
EXTENDS Integers, Sequences, FiniteSets, TLC

(* ---------------- program constants ---------------- *)
MAX_RETRIES_TEAM1 == 2
MAX_RETRIES_TEAM2 == 4
MAX_RETRIES_TEAM3 == 2
MAX_GLOBAL_LOOPS == 2
TEAM1_GRAPH_MAX_RETRIES == 2
TEAM2_GRAPH_MAX_RETRIES == 2
TEAM3_GRAPH_MAX_RETRIES == 2
semantic_relevance_THRESHOLD == 50
is_detailed_THRESHOLD == 50
total_docs_required == 5
SEMANTIC_ALIGNMENT_MIN == 80
ANSWER_SCORE_MIN == 70

(* ---------------- bounds of the model ---------------- *)
MaxMessages == 8     \* longest history explored under Spec
MaxFetch == 3        \* most documents one search returns
MaxDocs == 6         \* longest rag_docs / web_docs explored
MaxAttempts == 4     \* the attempt count stops counting here

(* ---------------- values ---------------- *)
None == "None"       \* Python None for the optional string fields
KEEP == "KEEP"       \* key absent from a returned update (string fields)
KEEPN == -1          \* key absent from a returned update (integer fields)
END == "END"

Questions == {"q", ""}

FEEDBACK_TEAM2_FAILED == "Team2 failed to collect material: generate a more specific query"
FEEDBACK_LOOP_LIMIT == "Process terminated to prevent an infinite loop."
FEEDBACK_MANAGER_ERROR == "manager agent error"

(* additional_kwargs of a message; "set" tells a non-empty dictionary *)
NoKwargs ==
    [set |-> FALSE, q_validity |-> FALSE, q_en_transformed |-> "",
     rag_queries |-> <<>>, best_rag_query |-> "", source_docs |-> <<>>,
     failed_reason |-> ""]

(* A message: content is  head  when detail = "", else  head ": " detail *)
Message(type, name, head, detail, kw) ==
    [type |-> type, name |-> name, head |-> head, detail |-> detail, kw |-> kw]

HumanMessage(content) == Message("human", "", content, "", NoKwargs)
AIMessage(content, kw) == Message("ai", "", content, "", kw)
ToolMessage(head, detail, name, kw) == Message("tool", name, head, detail, kw)

(* ---------------- state (AgentState) ---------------- *)
VARIABLES
    pc,                 \* node or router about to run, or END
    messages,
    next_team_to_call,
    manager_feedback,
    user_input,
    q_en_transformed,
    best_rag_query,
    rag_docs,
    web_docs,
    team1_retries,
    team2_retries,
    team3_retries,
    global_loop_count,
    attempts,           \* worker runs since the current stage graph was entered
    accepted_units,     \* documents the stage-2 evaluator accepted so far in the run
    verdicts,           \* the evaluator's answers of the evaluation just made
    is_simple_query,    \* the upstream classifier's answer for the run's question
    legacy,             \* the state dict and position of the supervisor pipeline
    config              \* the values of config.py the process was started with

(* the variables of the super graph *)
super_vars == <<pc, messages, next_team_to_call, manager_feedback, user_input,
                q_en_transformed, best_rag_query, rag_docs, web_docs,
                team1_retries, team2_retries, team3_retries, global_loop_count,
                attempts, accepted_units, verdicts, is_simple_query>>

vars == <<super_vars, legacy, config>>

(* the steps other than the document evaluation *)
EvidenceUntouched == accepted_units' = accepted_units /\ verdicts' = <<>>

State ==
    [messages |-> messages, next_team_to_call |-> next_team_to_call,
     manager_feedback |-> manager_feedback, user_input |-> user_input,
     q_en_transformed |-> q_en_transformed, best_rag_query |-> best_rag_query,
     rag_docs |-> rag_docs, web_docs |-> web_docs,
     team1_retries |-> team1_retries, team2_retries |-> team2_retries,
     team3_retries |-> team3_retries, global_loop_count |-> global_loop_count]

(* the update that returns no key *)
NoUpdate ==
    [messages |-> <<>>, next_team_to_call |-> KEEP, manager_feedback |-> KEEP,
     user_input |-> KEEP, q_en_transformed |-> KEEP, best_rag_query |-> KEEP,
     rag_docs |-> <<>>, web_docs |-> <<>>,
     team1_retries |-> KEEPN, team2_retries |-> KEEPN, team3_retries |-> KEEPN,
     global_loop_count |-> KEEPN]

Last(S) == S.messages[Len(S.messages)]

(* ---------------- reducers ---------------- *)
add_messages_replacing(left, right) == right  \* a faulty reducer: last value wins
add_messages(left, right) == left \o right
list_concat_replacing(left, right) == right    \* a faulty reducer: last value wins
list_concat(left, right) == left \o right
overwrite(old, new) == IF new = KEEP THEN old ELSE new
overwriteN(old, new) == IF new = KEEPN THEN old ELSE new

(* Indices of the messages some node of the program can still read: the    *)
(* question, the last message, the last AIMessage, the last team1_evaluator *)
(* message and the last team2_evaluator "pass".                            *)
IsLastOf(s, i, P(_)) == P(s[i]) /\ \A j \in (i + 1)..Len(s) : ~P(s[j])
IsAI(m) == m.type = "ai"
IsTeam1Eval(m) == m.type = "tool" /\ m.name = "team1_evaluator"
IsTeam2Pass(m) == m.type = "tool" /\ m.name = "team2_evaluator" /\ m.head = "pass"
Readable(s, i) ==
    \/ i = 1
    \/ i = Len(s)
    \/ IsLastOf(s, i, IsAI)
    \/ IsLastOf(s, i, IsTeam1Eval)
    \/ IsLastOf(s, i, IsTeam2Pass)

(* the history without the messages no node can read any more *)
Readables(s) == SelectSeq([i \in 1..Len(s) |-> [i |-> i, m |-> s[i]]],
                          LAMBDA e : Readable(s, e.i))
Forget(s) == [k \in 1..Len(Readables(s)) |-> Readables(s)[k].m]

(* Commit the update a node returned.  forget = FALSE keeps the whole       *)
(* history and explores it up to MaxMessages; forget = TRUE keeps the      *)
(* readable part of the history only, which no node can tell from the      *)
(* whole and which makes the reachable states finite.                      *)
Commit(upd, forget) ==
    /\ forget \/ Len(messages) + Len(upd.messages) <= MaxMessages
    /\ messages' = IF forget THEN Forget(add_messages(messages, upd.messages))
                           ELSE add_messages(messages, upd.messages)
    /\ next_team_to_call' = overwrite(next_team_to_call, upd.next_team_to_call)
    /\ manager_feedback' = overwrite(manager_feedback, upd.manager_feedback)
    /\ user_input' = overwrite(user_input, upd.user_input)
    /\ q_en_transformed' = overwrite(q_en_transformed, upd.q_en_transformed)
    /\ best_rag_query' = overwrite(best_rag_query, upd.best_rag_query)
    /\ Len(rag_docs) + Len(upd.rag_docs) <= MaxDocs
    /\ Len(web_docs) + Len(upd.web_docs) <= MaxDocs
    /\ rag_docs' = list_concat(rag_docs, upd.rag_docs)
    /\ web_docs' = list_concat(web_docs, upd.web_docs)
    /\ team1_retries' = overwriteN(team1_retries, upd.team1_retries)
    /\ team2_retries' = overwriteN(team2_retries, upd.team2_retries)
    /\ team3_retries' = overwriteN(team3_retries, upd.team3_retries)
    /\ global_loop_count' = overwriteN(global_loop_count, upd.global_loop_count)
    /\ is_simple_query' = is_simple_query
    /\ legacy' = legacy
    /\ config' = config

StateUnchanged ==
    UNCHANGED <<messages, next_team_to_call, manager_feedback, user_input,
                q_en_transformed, best_rag_query, rag_docs, web_docs,
                team1_retries, team2_retries, team3_retries, global_loop_count,
                is_simple_query, legacy, config>>

(* state.get("status", {}).get(team): AgentState declares no "status" key  *)
(* and no node of the stage graphs returns one, so the lookup yields None.  *)
status_of(S, team) == None

(* first HumanMessage content, "" when there is none *)
first_human(S) ==
    IF \E i \in 1..Len(S.messages) : S.messages[i].type = "human"
    THEN S.messages[CHOOSE i \in 1..Len(S.messages) :
            /\ S.messages[i].type = "human"
            /\ \A j \in 1..(i - 1) : S.messages[j].type # "human"].head
    ELSE ""

(* one more worker run in this stage invocation *)
one_more(n) == IF n < MaxAttempts THEN n + 1 ELSE n

(* ======================= stage 1 ======================= *)
RAG_QUERIES == <<"rq1", "rq2">>

(* what the stage-1 worker's language model returns *)
Team1WorkerOutputs ==
    [raise : {TRUE}, q_validity : {FALSE}, q_en_transformed : {""}]
    \cup [raise : {FALSE}, q_validity : BOOLEAN, q_en_transformed : {"qen"}]

process_question(S, out) ==
    IF first_human(S) = ""
    THEN [NoUpdate EXCEPT !.messages =
            <<ToolMessage("fail", "no question", "team1_worker", NoKwargs)>>]
    ELSE IF out.raise
    THEN [NoUpdate EXCEPT !.messages =
            <<ToolMessage("fail", "Team1 Worker error", "team1_worker", NoKwargs)>>]
    ELSE [NoUpdate EXCEPT
            !.user_input = first_human(S),
            !.q_en_transformed = out.q_en_transformed,
            !.messages = <<AIMessage("analysed",
                [NoKwargs EXCEPT !.set = TRUE,
                                 !.q_validity = out.q_validity,
                                 !.q_en_transformed = out.q_en_transformed,
                                 !.rag_queries = RAG_QUERIES])>>]

(* what the stage-1 evaluator's language model returns *)
Team1Verdicts ==
    [raise : {TRUE}, semantic_alignment : {80}, format_compliance : {TRUE},
     rag_query_scores : {<<90, 90>>}, error_message : {""}]
    \cup [raise : {FALSE}, semantic_alignment : {80}, format_compliance : {TRUE},
          rag_query_scores : {<<50, 90>>, <<90, 90>>}, error_message : {""}]
    \cup [raise : {FALSE}, semantic_alignment : {70}, format_compliance : {TRUE},
          rag_query_scores : {<<90, 90>>}, error_message : {""}]
    \cup [raise : {FALSE}, semantic_alignment : {80}, format_compliance : {FALSE},
          rag_query_scores : {<<90, 90>>}, error_message : {"e1"}]

(* a faulty choice: the last index holding the highest score *)
best_index_last(scores) ==
    CHOOSE i \in 1..Len(scores) :
        /\ \A j \in 1..Len(scores) : scores[j] <= scores[i]
        /\ \A j \in (i + 1)..Len(scores) : scores[j] < scores[i]

(* max(range(n), key=scores): the first index holding the highest score *)
best_index(scores) ==
    CHOOSE i \in 1..Len(scores) :
        /\ \A j \in 1..Len(scores) : scores[j] <= scores[i]
        /\ \A j \in 1..(i - 1) : scores[j] < scores[i]

TEAM1_DEFAULT_REASON == "Team1: evaluation criteria not met"

evaluate_question(S, v) ==
    LET last == Last(S)
        current_retries == S.team1_retries
        data == last.kw
    IN  IF ~(last.type = "ai" /\ last.kw.set)
        THEN [NoUpdate EXCEPT !.messages =
                <<ToolMessage("fail", "no analysis result", "team1_evaluator", NoKwargs)>>]
        ELSE IF ~data.q_validity \/ first_human(S) = ""
                \/ data.q_en_transformed = "" \/ data.rag_queries = <<>>
        THEN [NoUpdate EXCEPT !.messages =
                <<ToolMessage("fail", "missing information", "team1_evaluator", NoKwargs)>>]
        ELSE IF v.raise
        THEN IF current_retries < MAX_RETRIES_TEAM1
             THEN [NoUpdate EXCEPT !.messages =
                     <<ToolMessage("retry", "", "team1_evaluator", NoKwargs)>>]
             ELSE [NoUpdate EXCEPT !.messages =
                     <<ToolMessage("fail", "Team1 Evaluator error", "team1_evaluator", NoKwargs)>>]
        ELSE IF v.semantic_alignment >= SEMANTIC_ALIGNMENT_MIN /\ v.format_compliance
        THEN LET best_query == data.rag_queries[best_index(v.rag_query_scores)]
             IN [NoUpdate EXCEPT
                    !.best_rag_query = best_query,
                    !.q_en_transformed = data.q_en_transformed,
                    !.messages = <<ToolMessage("pass", "", "team1_evaluator",
                        [NoKwargs EXCEPT !.set = TRUE,
                                         !.q_en_transformed = data.q_en_transformed,
                                         !.best_rag_query = best_query])>>]
        ELSE LET err == IF v.error_message # "" THEN v.error_message
                        ELSE TEAM1_DEFAULT_REASON
             IN IF current_retries < MAX_RETRIES_TEAM1
                THEN [NoUpdate EXCEPT !.messages =
                        <<ToolMessage("retry", err, "team1_evaluator", NoKwargs)>>]
                ELSE [NoUpdate EXCEPT !.messages =
                        <<ToolMessage("fail", err, "team1_evaluator", NoKwargs)>>]

decide_next_step(S) ==
    IF status_of(S, "team1") = "pass" THEN END
    ELSE IF S.team1_retries < TEAM1_GRAPH_MAX_RETRIES THEN "process_question"
    ELSE END

ProcessQuestion(forget) ==
    /\ pc = "process_question"
    /\ \E out \in Team1WorkerOutputs : Commit(process_question(State, out), forget)
    /\ attempts' = one_more(attempts)
    /\ EvidenceUntouched
    /\ pc' = "evaluate_question"

EvaluateQuestion(forget) ==
    /\ pc = "evaluate_question"
    /\ \E v \in Team1Verdicts :
        /\ Commit(evaluate_question(State, v), forget)
        \* the scores of a passing evaluation are kept for the properties
        /\ verdicts' = IF evaluate_question(State, v).messages[1].head = "pass"
                       THEN v.rag_query_scores ELSE <<>>
    /\ attempts' = attempts
    /\ accepted_units' = accepted_units
    /\ pc' = "decide_next_step"

(* the stage graph's END hands the state to the manager (edge team1 -> manager) *)
DecideNextStep ==
    /\ pc = "decide_next_step"
    /\ pc' = IF decide_next_step(State) = END THEN "manager" ELSE decide_next_step(State)
    /\ attempts' = attempts
    /\ EvidenceUntouched
    /\ StateUnchanged

(* ======================= stage 2 ======================= *)
truthy(x) == x # None /\ x # ""

(* _get_query_from_history: the state's best_rag_query, else the one in the *)
(* last team1_evaluator message, else ""                                    *)
get_query_from_history(S) ==
    IF truthy(S.best_rag_query) THEN S.best_rag_query
    ELSE IF \E i \in 1..Len(S.messages) : IsTeam1Eval(S.messages[i])
    THEN S.messages[CHOOSE i \in 1..Len(S.messages) :
            IsLastOf(S.messages, i, IsTeam1Eval)].kw.best_rag_query
    ELSE ""

(* what a search tool returns: an exception, or n documents *)
SearchResults == [raise : {TRUE}, n : {0}] \cup [raise : {FALSE}, n : 0..MaxFetch]

(* a document: the source that fetched it and its rank in the fetch *)
Doc(source, k) == [source |-> source, k |-> k]

(* the list a search tool returns: n documents, best rank first *)
fetched(n) == [k \in 1..n |-> k]

rag_search(S, out) ==
    IF get_query_from_history(S) = ""
    THEN [NoUpdate EXCEPT !.messages =
            <<ToolMessage("fail", "no RAG query", "rag_search", NoKwargs)>>]
    ELSE IF out.raise
    THEN [NoUpdate EXCEPT !.messages =
            <<ToolMessage("fail", "RAG search error", "rag_search", NoKwargs)>>]
    ELSE [NoUpdate EXCEPT
            !.messages = <<ToolMessage("docs", "", "rag_search_result",
                [NoKwargs EXCEPT !.set = TRUE, !.source_docs = fetched(out.n)])>>,
            !.rag_docs = <<>>,
            !.web_docs = <<>>]

web_search(S, out) ==
    IF out.raise
    THEN [NoUpdate EXCEPT !.messages =
            <<ToolMessage("fail", "web search error", "web_search", NoKwargs)>>]
    ELSE [NoUpdate EXCEPT
            !.messages = <<ToolMessage("docs", "", "web_search_result",
                [NoKwargs EXCEPT !.set = TRUE, !.source_docs = fetched(out.n)])>>]

(* the evaluator's answer for one document *)
DocVerdicts ==
    [raise : {TRUE}, semantic_relevance : {50}, is_detailed : {50}]
    \cup [raise : {FALSE}, semantic_relevance : {25, 50}, is_detailed : {50}]

(* a faulty acceptance test: one score is enough *)
is_pass_either(r) ==
    /\ ~r.raise
    /\ \/ r.semantic_relevance >= semantic_relevance_THRESHOLD
       \/ r.is_detailed >= is_detailed_THRESHOLD

is_pass(r) ==
    /\ ~r.raise
    /\ r.semantic_relevance >= semantic_relevance_THRESHOLD
    /\ r.is_detailed >= is_detailed_THRESHOLD

(* the evaluator's answers for a batch of n documents; the batches explored put
   the accepted documents first, the rejected next, the evaluator errors last *)
verdict_kind(r) == IF is_pass(r) THEN 1 ELSE IF ~r.raise THEN 2 ELSE 3

DocVerdictBatches(n) ==
    {vs \in [1..n -> DocVerdicts] :
        \A i \in 1..(n - 1) : verdict_kind(vs[i]) <= verdict_kind(vs[i + 1])}

(* a faulty loop that stops at the first document it does not accept *)
accepted_docs_until_reject(source, docs, vs) ==
    LET stop == IF \E i \in 1..Len(docs) : ~is_pass(vs[docs[i]])
                THEN CHOOSE i \in 1..Len(docs) :
                        /\ ~is_pass(vs[docs[i]])
                        /\ \A j \in 1..(i - 1) : is_pass(vs[docs[j]])
                ELSE Len(docs) + 1
    IN  [i \in 1..(stop - 1) |-> Doc(source, docs[i])]

(* the documents of the batch the loop appends to "accepted", in batch     *)
(* order; docs is the batch (ranks), vs[k] the evaluator's answer for the  *)
(* document of rank k                                                      *)
accepted_docs(source, docs, vs) ==
    SelectSeq([i \in 1..Len(docs) |-> Doc(source, docs[i])],
              LAMBDA d : is_pass(vs[d.k]))

team2_verdict_message(decision, source, n_rag, n_web) ==
    ToolMessage(decision, "", "team2_evaluator", [NoKwargs EXCEPT !.set = TRUE])

(* additional_kwargs["failed_reason"]: set on the decision "fail" only *)
failed_reason(decision, why) == IF decision = "fail" THEN why ELSE ""
with_reason(m, reason) == [m EXCEPT !.kw.failed_reason = reason]

(* the documents the evaluation of the last message's batch accepts *)
newly_accepted(S, vs) ==
    accepted_docs(IF Last(S).name = "web_search_result" THEN "web" ELSE "rag",
                  Last(S).kw.source_docs, vs)

(* a faulty decision that allows one attempt more than the budget *)
retry_decision_late(source, next_retries) ==
    IF next_retries > MAX_RETRIES_TEAM2 THEN "fail"
    ELSE IF source = "rag" THEN "fallback_to_web" ELSE "retry_web"

(* the decision on a batch that did not fill the quota: the same for an   *)
(* empty batch and for one with too few accepted documents                *)
retry_decision(source, next_retries) ==
    IF next_retries >= MAX_RETRIES_TEAM2 THEN "fail"
    ELSE IF source = "rag" THEN "fallback_to_web" ELSE "retry_web"

(* vs: one verdict for each document of the last message's source_docs *)
evaluate_documents(S, vs) ==
    LET last == Last(S)
        source == IF last.name = "web_search_result" THEN "web" ELSE "rag"
        current_retries == S.team2_retries
        next_retries == current_retries + 1
        decision == retry_decision(source, next_retries)
        accepted == accepted_docs(source, last.kw.source_docs, vs)
        rag_acc == IF source = "rag" THEN S.rag_docs \o accepted ELSE S.rag_docs
        web_acc == IF source = "rag" THEN S.web_docs ELSE S.web_docs \o accepted
        total == Len(rag_acc) + Len(web_acc)
    IN  IF last.kw.source_docs = <<>>
        THEN [NoUpdate EXCEPT
                !.messages = <<with_reason(
                    team2_verdict_message(decision, source,
                                          Len(S.rag_docs), Len(S.web_docs)),
                    failed_reason(decision, "no_docs_to_evaluate"))>>,
                !.rag_docs = S.rag_docs,
                !.web_docs = S.web_docs,
                !.team2_retries = next_retries]
        ELSE IF total >= total_docs_required
        THEN [NoUpdate EXCEPT
                !.messages = <<team2_verdict_message("pass", source,
                                    Len(rag_acc), Len(web_acc))>>,
                !.rag_docs = rag_acc,
                !.web_docs = web_acc,
                !.team2_retries = 0]
        ELSE [NoUpdate EXCEPT
                !.messages = <<with_reason(
                    team2_verdict_message(decision, source,
                                          Len(rag_acc), Len(web_acc)),
                    failed_reason(decision, "budget_exhausted"))>>,
                !.rag_docs = rag_acc,
                !.web_docs = web_acc,
                !.team2_retries = next_retries]

(* state.get("web_docs") is not None: the web_docs channel holds a list    *)
(* from the start of the run (list_concat over List), and rag_search       *)
(* returns "web_docs": [] besides, so the value is never None.             *)
web_search_attempted(S) == TRUE

(* a faulty router that never gives up on the web search *)
retrieval_router_no_limit(S) ==
    IF status_of(S, "team2") = "pass" THEN END
    ELSE IF ~web_search_attempted(S) THEN "rag_search"
    ELSE "web_search"

retrieval_router(S) ==
    IF status_of(S, "team2") = "pass" THEN END
    ELSE IF ~web_search_attempted(S)
    THEN IF S.team2_retries < TEAM2_GRAPH_MAX_RETRIES THEN "rag_search"
         ELSE "web_search"
    ELSE IF S.team2_retries < TEAM2_GRAPH_MAX_RETRIES THEN "web_search"
         ELSE END

RagSearch(forget) ==
    /\ pc = "rag_search"
    /\ \E out \in SearchResults : Commit(rag_search(State, out), forget)
    /\ attempts' = one_more(attempts)
    /\ EvidenceUntouched
    /\ pc' = "evaluate_documents"

WebSearch(forget) ==
    /\ pc = "web_search"
    /\ \E out \in SearchResults : Commit(web_search(State, out), forget)
    /\ attempts' = one_more(attempts)
    /\ EvidenceUntouched
    /\ pc' = "evaluate_documents"

(* the evaluation node run with the evaluator's answers vs *)
Evaluate(forget, vs) ==
    /\ Commit(evaluate_documents(State, vs), forget)
    /\ verdicts' = vs
    /\ accepted_units' = accepted_units + Len(newly_accepted(State, vs))

EvaluateDocuments(forget) ==
    /\ pc = "evaluate_documents"
    /\ \E vs \in DocVerdictBatches(Len(Last(State).kw.source_docs)) :
            Evaluate(forget, vs)
    /\ attempts' = attempts
    /\ pc' = "retrieval_router"

RetrievalRouter ==
    /\ pc = "retrieval_router"
    /\ pc' = IF retrieval_router(State) = END THEN "manager" ELSE retrieval_router(State)
    /\ attempts' = attempts
    /\ EvidenceUntouched
    /\ StateUnchanged

(* ======================= stage 3 ======================= *)
(* _get_context_from_history: the refined question is read from the last   *)
(* team1_evaluator message, whatever its content                           *)
context_question(S) ==
    IF \E i \in 1..Len(S.messages) : IsTeam1Eval(S.messages[i])
    THEN S.messages[CHOOSE i \in 1..Len(S.messages) :
            IsLastOf(S.messages, i, IsTeam1Eval)].kw.q_en_transformed
    ELSE ""

Team3WorkerOutputs ==
    [raise : {TRUE}, answer : {""}] \cup [raise : {FALSE}, answer : {"answer", ""}]

generate_answer(S, out) ==
    IF out.raise
    THEN [NoUpdate EXCEPT !.messages =
            <<ToolMessage("fail", "Team3 Worker error", "team3_worker", NoKwargs)>>]
    ELSE [NoUpdate EXCEPT !.messages = <<AIMessage(out.answer, NoKwargs)>>]

Team3Verdicts ==
    [raise : {TRUE}, rules_compliance : {TRUE}, question_coverage : {70},
     logical_structure : {70}, hallucination_score : {70}, error_message : {""}]
    \cup [raise : {FALSE}, rules_compliance : {TRUE}, question_coverage : {70},
          logical_structure : {70}, hallucination_score : {70}, error_message : {""}]
    \cup [raise : {FALSE}, rules_compliance : {TRUE}, question_coverage : {60},
          logical_structure : {70}, hallucination_score : {70},
          error_message : {""}]
    \cup [raise : {FALSE}, rules_compliance : {FALSE}, question_coverage : {70},
          logical_structure : {70}, hallucination_score : {70}, error_message : {"e3"}]

TEAM3_DEFAULT_REASON == "answer quality is insufficient"

evaluate_answer(S, v) ==
    LET last == Last(S)
        current_retries == S.team3_retries
    IN  IF last.type # "ai"
        THEN [NoUpdate EXCEPT !.messages =
                <<ToolMessage("fail", "no answer to evaluate", "team3_evaluator", NoKwargs)>>]
        ELSE IF context_question(S) = "" \/ last.head = ""
        THEN [NoUpdate EXCEPT !.messages =
                <<ToolMessage("fail", "missing information", "team3_evaluator", NoKwargs)>>]
        ELSE IF v.raise
        THEN IF current_retries < MAX_RETRIES_TEAM3
             THEN [NoUpdate EXCEPT !.messages =
                     <<ToolMessage("retry", "", "final_evaluator", NoKwargs)>>]
             ELSE [NoUpdate EXCEPT !.messages =
                     <<ToolMessage("fail", "Team3 Evaluator error", "final_evaluator", NoKwargs)>>]
        ELSE IF /\ v.rules_compliance
                /\ v.question_coverage >= ANSWER_SCORE_MIN
                /\ v.logical_structure >= ANSWER_SCORE_MIN
                /\ v.hallucination_score >= ANSWER_SCORE_MIN
        THEN [NoUpdate EXCEPT !.messages =
                <<ToolMessage("pass", "", "final_evaluator", NoKwargs)>>]
        ELSE IF current_retries < MAX_RETRIES_TEAM3
        THEN [NoUpdate EXCEPT !.messages =
                <<ToolMessage("retry",
                    IF v.error_message # "" THEN v.error_message ELSE TEAM3_DEFAULT_REASON,
                    "final_evaluator", NoKwargs)>>]
        ELSE [NoUpdate EXCEPT !.messages =
                <<ToolMessage("fail", TEAM3_DEFAULT_REASON, "final_evaluator", NoKwargs)>>]

decide_final_step(S) ==
    IF status_of(S, "team3") = "pass" THEN END
    ELSE IF S.team3_retries <= TEAM3_GRAPH_MAX_RETRIES THEN "generate_answer"
    ELSE END

GenerateAnswer(forget) ==
    /\ pc = "generate_answer"
    /\ \E out \in Team3WorkerOutputs : Commit(generate_answer(State, out), forget)
    /\ attempts' = one_more(attempts)
    /\ EvidenceUntouched
    /\ pc' = "evaluate_answer"

EvaluateAnswer(forget) ==
    /\ pc = "evaluate_answer"
    /\ \E v \in Team3Verdicts : Commit(evaluate_answer(State, v), forget)
    /\ attempts' = attempts
    /\ EvidenceUntouched
    /\ pc' = "decide_final_step"

DecideFinalStep ==
    /\ pc = "decide_final_step"
    /\ pc' = IF decide_final_step(State) = END THEN "manager" ELSE decide_final_step(State)
    /\ attempts' = attempts
    /\ EvidenceUntouched
    /\ StateUnchanged

(* ======================= manager ======================= *)
(* what the manager's language model returns; next_team "absent" is a      *)
(* decision without the key, "team4" a value outside the schema (the JSON  *)
(* parser does not validate it)                                            *)
ManagerDecisions ==
    [raise : {TRUE}, next_team : {"absent"}, feedback : {None}]
    \cup [raise : {FALSE},
          next_team : {"team1", "team2", "team3", "end", "absent", "team4"},
          feedback : {None}]
    \cup [raise : {FALSE}, next_team : {"team1", "team3"}, feedback : {"fb"}]

(* a faulty check that lets the count pass the limit *)
loop_limit_reached_late(count) == count > MAX_GLOBAL_LOOPS

(* the loop-limit check made after the count was incremented *)
loop_limit_reached(count) == count >= MAX_GLOBAL_LOOPS

(* the forced decision and reason once the limit is reached *)
override_team(over, next_team) == IF over THEN "end" ELSE next_team
override_feedback_kept(over, feedback) == feedback
override_feedback(over, feedback) == IF over THEN FEEDBACK_LOOP_LIMIT ELSE feedback

(* a faulty manager that leaves the counters as the stages left them *)
reset_retries_never(next_team, team) == KEEPN

(* update_dict["teamK_retries"] = 0 for the team the run is sent to *)
reset_retries(next_team, team) == IF next_team = team THEN 0 ELSE KEEPN

manager_agent(S, d) ==
    LET last == Last(S)
        last_name == last.name
        is_team2_fail == last_name = "team2_evaluator" /\ last.head = "fail" /\ last.detail = ""
        next_team == IF d.next_team = "absent" THEN "end" ELSE d.next_team
        is_backward_loop == last_name = "team2_evaluator" /\ next_team = "team1"
        count == IF is_team2_fail \/ is_backward_loop
                 THEN S.global_loop_count + 1 ELSE S.global_loop_count
        over == is_backward_loop /\ loop_limit_reached(count)
        final_team == override_team(over, next_team)
    IN  IF is_team2_fail
        THEN IF loop_limit_reached(count)
             THEN [NoUpdate EXCEPT
                    !.next_team_to_call = "end",
                    !.manager_feedback = FEEDBACK_LOOP_LIMIT,
                    !.global_loop_count = count]
             ELSE [NoUpdate EXCEPT
                    !.next_team_to_call = "team1",
                    !.manager_feedback = FEEDBACK_TEAM2_FAILED,
                    !.global_loop_count = count,
                    !.team1_retries = 0]
        ELSE IF d.raise
        THEN [NoUpdate EXCEPT
                !.next_team_to_call = "end",
                !.manager_feedback = FEEDBACK_MANAGER_ERROR]
        ELSE [NoUpdate EXCEPT
                !.next_team_to_call = final_team,
                !.manager_feedback = override_feedback(over, d.feedback),
                !.global_loop_count = count,
                !.team1_retries = reset_retries(final_team, "team1"),
                !.team2_retries = reset_retries(final_team, "team2"),
                !.team3_retries = reset_retries(final_team, "team3")]

route_from_manager(S) ==
    IF ~truthy(S.next_team_to_call) THEN "end" ELSE S.next_team_to_call

(* the conditional-edge map of the super graph; a key outside it raises *)
edge_of(key) ==
    CASE key = "team1" -> "process_question"
      [] key = "team2" -> "rag_search"
      [] key = "team3" -> "generate_answer"
      [] key = "end" -> END
      [] OTHER -> "KeyError"

ManagerAgent(forget) ==
    /\ pc = "manager"
    /\ \E d \in ManagerDecisions : Commit(manager_agent(State, d), forget)
    /\ attempts' = attempts
    /\ EvidenceUntouched
    /\ pc' = "route_from_manager"

RouteFromManager ==
    /\ pc = "route_from_manager"
    /\ pc' = edge_of(route_from_manager(State))
    /\ attempts' = 0
    /\ EvidenceUntouched
    /\ StateUnchanged

(* ======================= the supervisor pipeline ======================= *)
(* main_graph.py: chief_supervisor routes between the three supervisor     *)
(* functions, each of which runs its worker and its evaluator in a loop.  *)
(* legacy is the state dict of that graph, with the node about to run and *)
(* the number of loop iterations the running supervisor has finished.     *)
max_attempts == 2

Team1Messages ==
    [INVALID |-> "Team1: the question is ambiguous or inappropriate",
     NO_QUERIES |-> "Team1: no RAG query candidate was generated",
     PARSE |-> "Team1: failed to parse the evaluation",
     ERROR |-> "Team1: unknown error during evaluation",
     LENGTH |-> "Team1: rag_query_scores differs in length from rag_queries",
     EVAL_FAILED |-> "Team1: evaluation failed",
     AGENT_PARSE |-> "Team1: Failed to parse LLM output for question processing.",
     AGENT_ERROR |-> "Team1: An unexpected error occurred in agent_team1"]

Team2Messages ==
    [NO_QUERY |-> "Team2: rag_query is empty",
     RAG_EMPTY |-> "Team2: the RAG result is empty",
     RAG_PARSE |-> "Team2: failed to parse the RAG evaluation",
     RAG_ERROR |-> "Team2: unknown error during the RAG evaluation",
     RAG_POOR |-> "Team2: the RAG documents lack relevance or detail",
     WEB_EMPTY |-> "Team2: the web result is empty",
     WEB_PARSE |-> "Team2: failed to parse the WEB evaluation",
     WEB_ERROR |-> "Team2: unknown error during the WEB evaluation",
     WEB_POOR |-> "Team2: the web documents lack relevance or detail",
     UNKNOWN |-> "Team2: no suitable document was found"]

Team3Messages ==
    [MISSING |-> "Team3: the question or the answer is empty",
     PARSE |-> "Team3: failed to parse the evaluation",
     ERROR |-> "Team3: unknown error during evaluation",
     EVAL_FAILED |-> "Team3: evaluation failed",
     UNKNOWN |-> "Team3: failed for an unknown reason"]
GENERATION_FAILED == "Answer generation failed"

(* a faulty strip that keeps the blanks *)
strip_nothing(s) == s

(* str.strip() on the strings of the model: " " is the blank string *)
strip(s) == IF s = " " THEN "" ELSE s

(* a faulty default that keeps the empty string *)
or_else_nothing(a, b) == a

(* Python's "a or b" on strings *)
or_else(a, b) == IF a # "" THEN a ELSE b

(* the error messages an evaluator's language model may write *)
EvalMessages == {"", " ", "e"}

NoStatus == [team1 |-> None, team2 |-> None, team3 |-> None]

(* the state dict before the first node has run: only the question is set *)
LegacyState(user_input_) ==
    [node |-> "chief_supervisor", loop |-> 0, calls |-> <<>>,
     user_input |-> user_input_, q_validity |-> FALSE, q_en_transformed |-> "",
     rag_queries |-> <<>>, rag_query |-> "", rag_query_scores |-> <<>>,
     rag_docs |-> <<>>, web_docs |-> <<>>, generated_answer |-> "",
     error_message |-> "", status |-> NoStatus, next_node |-> None,
     \* what the routing chain returned last (kept for the properties)
     decision |-> [raise |-> FALSE, next_node |-> "absent"]]

(* the supervisor pipeline when it is not run *)
LegacyIdle == [LegacyState("") EXCEPT !.node = END]

(* ---- team 1 ---- *)
(* what the question-processing agent's language model returns *)
Team1AgentOutputs ==
    [raise : {"parse", "error"}, q_validity : {FALSE}, q_en_transformed : {""},
     rag_queries : {<<>>}]
    \cup [raise : {"no"}, q_validity : BOOLEAN, q_en_transformed : {"qen"},
          rag_queries : {<<>>, RAG_QUERIES}]

agent_team1_question_processing(L, out) ==
    IF strip(L.user_input) = ""
    THEN [L EXCEPT !.q_validity = FALSE, !.q_en_transformed = "", !.rag_queries = <<>>]
    ELSE IF out.raise = "parse" THEN [L EXCEPT !.error_message = Team1Messages.AGENT_PARSE]
    ELSE IF out.raise = "error" THEN [L EXCEPT !.error_message = Team1Messages.AGENT_ERROR]
    ELSE [L EXCEPT !.q_validity = out.q_validity,
                   !.q_en_transformed = strip(out.q_en_transformed),
                   !.rag_queries = out.rag_queries]

(* what the supervisor's evaluation chain returns *)
Team1EvalResults ==
    [raise : {"parse", "error"}, semantic_alignment : {TRUE}, format_compliance : {TRUE},
     rag_query_scores : {<<>>}, error_message : {""}]
    \cup [raise : {"no"}, semantic_alignment : {TRUE}, format_compliance : {TRUE},
          rag_query_scores : {<<50, 90>>, <<90, 90>>, <<90>>}, error_message : {""}]
    \cup [raise : {"no"}, semantic_alignment : BOOLEAN, format_compliance : BOOLEAN,
          rag_query_scores : {<<50, 90>>}, error_message : EvalMessages]

(* the node returns to the chief supervisor *)
returned(L) == [L EXCEPT !.node = "chief_supervisor", !.loop = 0]

(* a faulty loop bound that allows one attempt more *)
team1_attempt_failed_late(L, reason) ==
    LET s == [L EXCEPT !.error_message = reason, !.loop = @ + 1]
    IN  IF s.loop > max_attempts
        THEN returned([s EXCEPT !.status.team1 = "fail"])
        ELSE s

(* a failed attempt of supervisor_team1: the reason is recorded and the    *)
(* function returns with status fail once max_attempts attempts are used   *)
team1_attempt_failed(L, reason) ==
    LET s == [L EXCEPT !.error_message = reason, !.loop = @ + 1]
    IN  IF s.loop >= max_attempts
        THEN returned([s EXCEPT !.status.team1 = "fail"])
        ELSE s

(* one iteration of the while loop of supervisor_team1 *)
supervisor_team1(L, out, ev) ==
    LET s == [agent_team1_question_processing(L, out)
                EXCEPT !.calls = Append(@, "agent")]
        e == [s EXCEPT !.calls = Append(@, "eval")]
    IN  IF ~s.q_validity THEN team1_attempt_failed(s, Team1Messages.INVALID)
        ELSE IF s.rag_queries = <<>> THEN team1_attempt_failed(s, Team1Messages.NO_QUERIES)
        ELSE IF ev.raise = "parse" THEN team1_attempt_failed(e, Team1Messages.PARSE)
        ELSE IF ev.raise = "error" THEN team1_attempt_failed(e, Team1Messages.ERROR)
        ELSE IF Len(ev.rag_query_scores) # Len(s.rag_queries)
        THEN team1_attempt_failed(e, Team1Messages.LENGTH)
        ELSE IF ~(ev.semantic_alignment /\ ev.format_compliance)
        THEN team1_attempt_failed(e,
                or_else(strip(ev.error_message), Team1Messages.EVAL_FAILED))
        ELSE returned([e EXCEPT
                !.rag_query = s.rag_queries[best_index(ev.rag_query_scores)],
                !.rag_query_scores = ev.rag_query_scores,
                !.status.team1 = "pass",
                !.error_message = ""])

(* ---- team 2 ---- *)
(* what a search returns: no document or one *)
LegacySearchResults == {<<>>, <<1>>}

(* what _eval_docs returns *)
Team2EvalResults ==
    [raise : {"parse", "error"}, semantic_relevance : {TRUE}, is_detailed : {TRUE},
     error_message : {""}]
    \cup [raise : {"no"}, semantic_relevance : BOOLEAN, is_detailed : BOOLEAN,
          error_message : EvalMessages]

(* agent_team2_rag_search / agent_team2_web_search: the documents found,  *)
(* none when the search fails                                             *)
agent_team2_rag_search(L, docs) ==
    [L EXCEPT !.rag_docs = IF L.rag_query = "" THEN <<>> ELSE docs,
              !.calls = Append(@, "rag")]
agent_team2_web_search(L, docs) ==
    [L EXCEPT !.web_docs = IF strip(L.rag_query) = "" THEN <<>> ELSE docs,
              !.calls = Append(@, "web")]

(* a faulty loop bound that allows a fifth attempt *)
team2_attempt_failed_late(L, reason) ==
    LET s == [L EXCEPT !.error_message = reason, !.loop = @ + 1]
    IN  IF s.loop > 2 * max_attempts
        THEN returned([s EXCEPT !.status.team2 = "fail",
                                !.error_message = or_else(@, Team2Messages.UNKNOWN)])
        ELSE s

(* the end of a failed iteration: after the last web attempt the function *)
(* returns with status fail and a default reason if none is recorded      *)
team2_attempt_failed(L, reason) ==
    LET s == [L EXCEPT !.error_message = reason, !.loop = @ + 1]
    IN  IF s.loop >= 2 * max_attempts
        THEN returned([s EXCEPT !.status.team2 = "fail",
                                !.error_message = or_else(@, Team2Messages.UNKNOWN)])
        ELSE s

(* the entry check and one iteration of the two for loops of              *)
(* supervisor_team2: iterations 1..max_attempts search the vector store,  *)
(* the following max_attempts the web                                     *)
supervisor_team2(L, docs, ev) ==
    IF L.loop = 0 /\ strip(L.rag_query) = ""
    THEN returned([L EXCEPT !.status.team2 = "fail", !.error_message = Team2Messages.NO_QUERY])
    ELSE
    LET rag == L.loop < max_attempts
        found == IF rag THEN agent_team2_rag_search(L, docs)
                        ELSE agent_team2_web_search(L, docs)
        got == IF rag THEN found.rag_docs ELSE found.web_docs
        s == IF got = <<>>
             THEN [found EXCEPT !.error_message =
                        IF rag THEN Team2Messages.RAG_EMPTY ELSE Team2Messages.WEB_EMPTY]
             ELSE found
        \* _eval_docs has run: its answer is kept with the calls
        e == [s EXCEPT !.calls = Append(@,
                IF ev.raise = "no" /\ ev.semantic_relevance /\ ev.is_detailed
                THEN "accept" ELSE "reject")]
    IN  IF ev.raise = "parse"
        THEN team2_attempt_failed(e, IF rag THEN Team2Messages.RAG_PARSE ELSE Team2Messages.WEB_PARSE)
        ELSE IF ev.raise = "error"
        THEN team2_attempt_failed(e, IF rag THEN Team2Messages.RAG_ERROR ELSE Team2Messages.WEB_ERROR)
        ELSE IF ev.semantic_relevance /\ ev.is_detailed
        THEN returned([e EXCEPT !.status.team2 = "pass", !.error_message = ""])
        ELSE team2_attempt_failed(e,
                strip(or_else(ev.error_message,
                              IF rag THEN Team2Messages.RAG_POOR ELSE Team2Messages.WEB_POOR)))

(* ---- team 3 ---- *)
Team3AgentOutputs ==
    [raise : {TRUE}, content : {""}] \cup [raise : {FALSE}, content : {"answer", "", " "}]

agent_team3_answer_generation(L, out) ==
    [L EXCEPT !.generated_answer =
                IF out.raise THEN GENERATION_FAILED ELSE strip(out.content),
              !.calls = Append(@, "agent")]

Team3EvalResults ==
    [raise : {"parse", "error"}, rules_compliance : {TRUE}, question_coverage : {TRUE},
     logical_structure : {TRUE}, error_message : {""}]
    \cup [raise : {"no"}, rules_compliance : BOOLEAN, question_coverage : {TRUE},
          logical_structure : BOOLEAN, error_message : EvalMessages]
    \cup [raise : {"no"}, rules_compliance : {TRUE}, question_coverage : {FALSE},
          logical_structure : {TRUE}, error_message : {""}]

(* a failed attempt that returns when it was the last one *)
team3_attempt_failed(L, reason) ==
    LET s == [L EXCEPT !.error_message = reason]
    IN  IF s.loop >= max_attempts
        THEN returned([s EXCEPT !.status.team3 = "fail"])
        ELSE s

(* a rejected answer: the loop condition decides; after the loop the      *)
(* function returns with status fail and a default reason if none is      *)
(* recorded                                                               *)
team3_answer_rejected(L, reason) ==
    LET s == [L EXCEPT !.error_message = reason]
    IN  IF s.loop < max_attempts
        THEN s
        ELSE returned([s EXCEPT !.status.team3 = "fail",
                                !.error_message = or_else(@, Team3Messages.UNKNOWN)])

(* one iteration of the while loop of supervisor_team3 *)
supervisor_team3(L, out, ev) ==
    LET s == [agent_team3_answer_generation(L, out) EXCEPT !.loop = @ + 1]
        question == strip(s.q_en_transformed)
        answer == strip(s.generated_answer)
        e == [s EXCEPT !.calls = Append(@, "eval")]
    IN  IF question = "" \/ answer = "" THEN team3_attempt_failed(s, Team3Messages.MISSING)
        ELSE IF ev.raise = "parse" THEN team3_attempt_failed(e, Team3Messages.PARSE)
        ELSE IF ev.raise = "error" THEN team3_attempt_failed(e, Team3Messages.ERROR)
        ELSE IF ev.rules_compliance /\ ev.question_coverage /\ ev.logical_structure
        THEN returned([e EXCEPT !.status.team3 = "pass", !.error_message = ""])
        ELSE team3_answer_rejected(e,
                strip(or_else(ev.error_message, Team3Messages.EVAL_FAILED)))

(* ---- chief supervisor ---- *)
(* what the routing chain returns; "absent" is a decision without the key *)
(* next_node, "other" a name outside the edge map                         *)
RoutingDecisions ==
    [raise : {TRUE}, next_node : {"absent"}]
    \cup [raise : {FALSE},
          next_node : {"team1_supervisor", "team2_supervisor", "team3_supervisor",
                       "end", "absent", "other"}]

(* a faulty router that clears the recorded reason as it routes *)
chief_supervisor_router_clearing(L, d) ==
    [L EXCEPT !.next_node = IF d.raise \/ d.next_node = "absent"
                            THEN "end" ELSE d.next_node,
              !.error_message = "",
              !.decision = d,
              !.node = "route_from_chief"]

chief_supervisor_router(L, d) ==
    [L EXCEPT !.next_node = IF d.raise \/ d.next_node = "absent"
                            THEN "end" ELSE d.next_node,
              !.decision = d,
              !.node = "route_from_chief"]

(* the conditional edge of main_graph: the key next_node in the edge map; *)
(* a key outside it raises                                                *)
legacy_edge_of(key) ==
    CASE key \in {"team1_supervisor", "team2_supervisor", "team3_supervisor"} -> key
      [] key = "end" -> END
      [] OTHER -> "KeyError"

(* ---- the steps of the pipeline ---- *)
ChiefSupervisorRouter ==
    /\ legacy.node = "chief_supervisor"
    /\ \E d \in RoutingDecisions : legacy' = chief_supervisor_router(legacy, d)
    /\ UNCHANGED <<super_vars, config>>

RouteFromChief ==
    /\ legacy.node = "route_from_chief"
    /\ legacy' = [legacy EXCEPT !.node = legacy_edge_of(legacy.next_node),
                                !.loop = 0, !.calls = <<>>]
    /\ UNCHANGED <<super_vars, config>>

SupervisorTeam1 ==
    /\ legacy.node = "team1_supervisor"
    /\ \E out \in Team1AgentOutputs : \E ev \in Team1EvalResults :
            legacy' = supervisor_team1(legacy, out, ev)
    /\ UNCHANGED <<super_vars, config>>

SupervisorTeam2 ==
    /\ legacy.node = "team2_supervisor"
    /\ \E docs \in LegacySearchResults : \E ev \in Team2EvalResults :
            legacy' = supervisor_team2(legacy, docs, ev)
    /\ UNCHANGED <<super_vars, config>>

SupervisorTeam3 ==
    /\ legacy.node = "team3_supervisor"
    /\ \E out \in Team3AgentOutputs : \E ev \in Team3EvalResults :
            legacy' = supervisor_team3(legacy, out, ev)
    /\ UNCHANGED <<super_vars, config>>


(* ======================= the run ======================= *)
(* config.py as it is in the repository, with the API key of the          *)
(* environment present                                                    *)
CONFIG ==
    [MAX_RETRIES_TEAM1 |-> MAX_RETRIES_TEAM1, MAX_RETRIES_TEAM2 |-> MAX_RETRIES_TEAM2,
     MAX_RETRIES_TEAM3 |-> MAX_RETRIES_TEAM3, MAX_GLOBAL_LOOPS |-> MAX_GLOBAL_LOOPS,
     OPENAI_API_KEY |-> TRUE]

(* SimpleQueryResult.is_simple_query: what classify_simple_query answers   *)
(* for a question ("No" as well when the call fails).  No caller invokes   *)
(* the classifier and no node or router reads its answer: the key the      *)
(* callers put into the initial state is not a key of AgentState.          *)
SimpleQueryResult == {"Yes", "No"}

(* ask_agent's initial state: the question, every counter 0 *)
InitRun ==
    /\ pc = "process_question"
    /\ \E q \in Questions : messages = <<HumanMessage(q)>>
    /\ next_team_to_call = None
    /\ manager_feedback = None
    /\ user_input = None
    /\ q_en_transformed = None
    /\ best_rag_query = None
    /\ rag_docs = <<>>
    /\ web_docs = <<>>
    /\ team1_retries = 0
    /\ team2_retries = 0
    /\ team3_retries = 0
    /\ global_loop_count = 0
    /\ attempts = 0
    /\ accepted_units = 0
    /\ verdicts = <<>>
    /\ is_simple_query \in SimpleQueryResult
    /\ legacy = LegacyIdle
    /\ config = CONFIG

(* ---- states in which the manager is handed a stage's terminal verdict ---- *)
ANALYSED ==
    AIMessage("analysed", [NoKwargs EXCEPT !.set = TRUE, !.q_validity = TRUE,
                           !.q_en_transformed = "qen", !.rag_queries = RAG_QUERIES])
TEAM1_PASS ==
    ToolMessage("pass", "", "team1_evaluator",
        [NoKwargs EXCEPT !.set = TRUE, !.q_en_transformed = "qen",
                         !.best_rag_query = "rq1"])
TEAM2_PASS == team2_verdict_message("pass", "web", 3, 2)
ACCEPTED_RAG == <<Doc("rag", 1), Doc("rag", 2), Doc("rag", 3)>>
ACCEPTED_WEB == <<Doc("web", 1), Doc("web", 2)>>

(* history, last verdict, accepted documents and team2_retries at the      *)
(* return of a stage that ended with a terminal verdict; the second entry  *)
(* is a stage-1 pass that follows a backward redirect, where team2_retries *)
(* still holds what the failed stage 2 left                                *)
StageReturns ==
    {[history |-> <<HumanMessage("q"), ANALYSED>>, verdict |-> TEAM1_PASS,
      query |-> "rq1", rag |-> <<>>, web |-> <<>>, retries2 |-> 0],
     [history |-> <<HumanMessage("q"), ANALYSED>>, verdict |-> TEAM1_PASS,
      query |-> "rq1", rag |-> <<>>, web |-> <<>>, retries2 |-> MAX_RETRIES_TEAM2],
     [history |-> <<HumanMessage("q"), ANALYSED>>,
      verdict |-> ToolMessage("fail", TEAM1_DEFAULT_REASON, "team1_evaluator", NoKwargs),
      query |-> None, rag |-> <<>>, web |-> <<>>, retries2 |-> 0],
     [history |-> <<HumanMessage("q"), ANALYSED, TEAM1_PASS>>, verdict |-> TEAM2_PASS,
      query |-> "rq1", rag |-> ACCEPTED_RAG, web |-> ACCEPTED_WEB, retries2 |-> 0],
     [history |-> <<HumanMessage("q"), ANALYSED, TEAM1_PASS>>,
      verdict |-> with_reason(team2_verdict_message("fail", "web", 0, 0),
                              failed_reason("fail", "budget_exhausted")),
      query |-> "rq1", rag |-> <<>>, web |-> <<>>, retries2 |-> MAX_RETRIES_TEAM2],
     [history |-> <<HumanMessage("q"), ANALYSED, TEAM1_PASS, TEAM2_PASS,
                    AIMessage("answer", NoKwargs)>>,
      verdict |-> ToolMessage("pass", "", "final_evaluator", NoKwargs),
      query |-> "rq1", rag |-> ACCEPTED_RAG, web |-> ACCEPTED_WEB, retries2 |-> 0],
     [history |-> <<HumanMessage("q"), ANALYSED, TEAM1_PASS, TEAM2_PASS,
                    AIMessage("answer", NoKwargs)>>,
      verdict |-> ToolMessage("fail", TEAM3_DEFAULT_REASON, "final_evaluator", NoKwargs),
      query |-> "rq1", rag |-> ACCEPTED_RAG, web |-> ACCEPTED_WEB, retries2 |-> 0]}

InitManager ==
    /\ pc = "manager"
    /\ \E r \in StageReturns :
        /\ messages = r.history \o <<r.verdict>>
        /\ best_rag_query = r.query
        /\ rag_docs = r.rag
        /\ web_docs = r.web
        /\ team2_retries = r.retries2
        /\ accepted_units = Len(r.rag) + Len(r.web)
    /\ next_team_to_call = None
    /\ manager_feedback = None
    /\ user_input = "q"
    /\ q_en_transformed = "qen"
    /\ team1_retries = 0
    /\ team3_retries = 0
    /\ global_loop_count \in 0..(MAX_GLOBAL_LOOPS - 1)
    /\ attempts = 1
    /\ verdicts = <<>>
    /\ is_simple_query \in SimpleQueryResult
    /\ legacy = LegacyIdle
    /\ config = CONFIG

Init == InitRun \/ InitManager

(* the whole engine over the readable history *)
Next ==
    \/ ProcessQuestion(TRUE) \/ EvaluateQuestion(TRUE) \/ DecideNextStep
    \/ RagSearch(TRUE) \/ WebSearch(TRUE) \/ EvaluateDocuments(TRUE)
    \/ RetrievalRouter
    \/ GenerateAnswer(TRUE) \/ EvaluateAnswer(TRUE) \/ DecideFinalStep
    \/ ManagerAgent(TRUE) \/ RouteFromManager

Spec == Init /\ [][Next]_vars

(* the whole engine over the whole history, up to MaxMessages records *)
NextHistory ==
    \/ ProcessQuestion(FALSE) \/ EvaluateQuestion(FALSE) \/ DecideNextStep
    \/ RagSearch(FALSE) \/ WebSearch(FALSE) \/ EvaluateDocuments(FALSE)
    \/ RetrievalRouter
    \/ GenerateAnswer(FALSE) \/ EvaluateAnswer(FALSE) \/ DecideFinalStep
    \/ ManagerAgent(FALSE) \/ RouteFromManager

HistorySpec == Init /\ [][NextHistory]_vars

(* One run of the super graph as ask_agent starts it.  The graph engine    *)
(* runs the next node as long as there is one, hence the weak fairness.    *)
(* The steps listed are those such a run can reach.                        *)
NextRun == ProcessQuestion(TRUE) \/ EvaluateQuestion(TRUE) \/ DecideNextStep

RunSpec == InitRun /\ [][NextRun]_vars /\ WF_vars(NextRun)

(* ---- one evaluation of one fetched batch ---- *)
(* every answer the evaluator can give for one document *)
AllDocVerdicts ==
    [raise : {TRUE}, semantic_relevance : {50}, is_detailed : {50}]
    \cup [raise : {FALSE}, semantic_relevance : {25, 50}, is_detailed : {25, 50}]

(* the arrangements of the documents 1..n in a fetched list *)
Arrangements(n) ==
    {f \in [1..n -> 1..n] : \A i, j \in 1..n : f[i] = f[j] => i = j}

(* evaluate_documents is about to judge a batch of 0..MaxFetch documents  *)
(* in some arrangement, fetched from either source, with or without       *)
(* evidence of the other source in store, on a first or on a last retry   *)
InitBatch ==
    /\ pc = "evaluate_documents"
    /\ \E n \in 0..MaxFetch : \E docs \in Arrangements(n) :
       \E name \in {"rag_search_result", "web_search_result"} :
            messages = <<HumanMessage("q"), ANALYSED, TEAM1_PASS,
                         ToolMessage("docs", "", name,
                            [NoKwargs EXCEPT !.set = TRUE, !.source_docs = docs])>>
    /\ \E other \in {<<>>, ACCEPTED_RAG} :
            /\ rag_docs = IF messages[Len(messages)].name = "web_search_result"
                          THEN other ELSE <<>>
            /\ web_docs = IF messages[Len(messages)].name = "web_search_result"
                          THEN <<>>
                          ELSE [i \in 1..Len(other) |-> Doc("web", other[i].k)]
            /\ accepted_units = Len(other)
    /\ team2_retries \in {0, MAX_RETRIES_TEAM2 - 1}
    /\ next_team_to_call = "team2"
    /\ manager_feedback = None
    /\ user_input = "q"
    /\ q_en_transformed = "qen"
    /\ best_rag_query = "rq1"
    /\ team1_retries = 0
    /\ team3_retries = 0
    /\ global_loop_count = 0
    /\ attempts = 1
    /\ verdicts = <<>>
    /\ is_simple_query = "No"
    /\ legacy = LegacyIdle
    /\ config = CONFIG

EvaluateBatch ==
    /\ pc = "evaluate_documents"
    /\ \E vs \in [1..Len(Last(State).kw.source_docs) -> AllDocVerdicts] :
            Evaluate(FALSE, vs)
    /\ attempts' = attempts
    /\ pc' = "retrieval_router"

BatchSpec == InitBatch /\ [][EvaluateBatch]_vars

(* stage 2 as the manager invokes it, and the stage-2 evaluator on every  *)
(* batch, on a first and on a last retry                                  *)
InitStage2 == InitManager \/ InitBatch

NextStage2 ==
    \/ ManagerAgent(TRUE) \/ RouteFromManager
    \/ RagSearch(TRUE) \/ WebSearch(TRUE) \/ RetrievalRouter
    \/ EvaluateDocuments(TRUE)

Stage2Spec == InitStage2 /\ [][NextStage2]_vars

(* ---- the supervisor pipeline on its own ---- *)
InitLegacy ==
    /\ pc = END
    /\ messages = <<>>
    /\ next_team_to_call = None
    /\ manager_feedback = None
    /\ user_input = None
    /\ q_en_transformed = None
    /\ best_rag_query = None
    /\ rag_docs = <<>>
    /\ web_docs = <<>>
    /\ team1_retries = 0
    /\ team2_retries = 0
    /\ team3_retries = 0
    /\ global_loop_count = 0
    /\ attempts = 0
    /\ accepted_units = 0
    /\ verdicts = <<>>
    /\ is_simple_query = "No"
    \* the caller's dict: a question, and no search directive or a blank one
    /\ \E q \in Questions : \E directive \in {"", " "} :
            legacy = [LegacyState(q) EXCEPT !.rag_query = directive]
    /\ config = CONFIG

NextLegacy ==
    \/ ChiefSupervisorRouter \/ RouteFromChief
    \/ SupervisorTeam1 \/ SupervisorTeam2 \/ SupervisorTeam3

LegacySpec == InitLegacy /\ [][NextLegacy]_vars

(* ---- both pipelines of the repository ---- *)
InitPipelines == Init \/ InitLegacy

NextPipelines == Next \/ NextLegacy

PipelinesSpec == InitPipelines /\ [][NextPipelines]_vars

(* ---- the start of the process ---- *)
(* the configurations a deployment may write into config.py: each budget  *)
(* as in the repository or negative, the API key present or not          *)
ConfigValues ==
    [MAX_RETRIES_TEAM1 : {-1, MAX_RETRIES_TEAM1},
     MAX_RETRIES_TEAM2 : {-1, MAX_RETRIES_TEAM2},
     MAX_RETRIES_TEAM3 : {-1, MAX_RETRIES_TEAM3},
     MAX_GLOBAL_LOOPS : {-1, MAX_GLOBAL_LOOPS},
     OPENAI_API_KEY : BOOLEAN]

InitStart ==
    /\ pc = "import_config"
    /\ config \in ConfigValues
    /\ \E q \in Questions : messages = <<HumanMessage(q)>>
    /\ next_team_to_call = None
    /\ manager_feedback = None
    /\ user_input = None
    /\ q_en_transformed = None
    /\ best_rag_query = None
    /\ rag_docs = <<>>
    /\ web_docs = <<>>
    /\ team1_retries = 0
    /\ team2_retries = 0
    /\ team3_retries = 0
    /\ global_loop_count = 0
    /\ attempts = 0
    /\ accepted_units = 0
    /\ verdicts = <<>>
    /\ is_simple_query = "No"
    /\ legacy = LegacyIdle

(* the module body of config.py: the only check is that of the API key *)
ImportConfig ==
    /\ pc = "import_config"
    /\ pc' = IF config.OPENAI_API_KEY THEN "get_graph_app" ELSE "ValueError"
    /\ attempts' = attempts
    /\ EvidenceUntouched
    /\ StateUnchanged

(* get_graph_app builds the stage graphs and the super graph; ask_agent   *)
(* then invokes it, which starts at the entry point of team1              *)
GetGraphApp ==
    /\ pc = "get_graph_app"
    /\ pc' = "process_question"
    /\ attempts' = attempts
    /\ EvidenceUntouched
    /\ StateUnchanged

(* the start of a process up to the first run of the stage-1 worker *)
NextStart == ImportConfig \/ GetGraphApp \/ ProcessQuestion(TRUE)

StartSpec == InitStart /\ [][NextStart]_vars

(* ======================= properties ======================= *)
Team1Nodes == {"process_question", "evaluate_question", "decide_next_step"}
Team2Nodes == {"rag_search", "web_search", "evaluate_documents", "retrieval_router"}
Team3Nodes == {"generate_answer", "evaluate_answer", "decide_final_step"}

(* the manager has decided on a stage-2 outcome *)
DecidedOnTeam2 ==
    pc = "route_from_manager" /\ Last(State).name = "team2_evaluator"
DecidedOnTeam2Fail ==
    DecidedOnTeam2 /\ Last(State).head = "fail" /\ Last(State).detail = ""

(* C1: every run of the super graph eventually reaches END (or stops on  *)
(* an error), whatever the workers, evaluators and the manager answer.    *)
C1_RunTerminates == <>(pc \in {END, "KeyError"})

(* C2: global_loop_count never exceeds MAX_GLOBAL_LOOPS, and once it has  *)
(* reached the ceiling the manager's decision on a stage-2 outcome is     *)
(* "end", never "team1", in the guard and in the decided branch alike.    *)
C2_LoopCeiling ==
    /\ global_loop_count <= MAX_GLOBAL_LOOPS
    /\ DecidedOnTeam2 /\ global_loop_count >= MAX_GLOBAL_LOOPS
            => next_team_to_call = "end"
    /\ global_loop_count >= MAX_GLOBAL_LOOPS => pc \notin Team1Nodes

C2_Witness ==
    /\ DecidedOnTeam2
    /\ global_loop_count = MAX_GLOBAL_LOOPS
    /\ next_team_to_call = "end"

(* C3: the manager honours MAX_GLOBAL_LOOPS backward redirects: as long   *)
(* as no more than MAX_GLOBAL_LOOPS stage-2 terminal Fails were counted,  *)
(* the decision on the Fail is team1; only the next Fail ends the run.    *)
C3_HonoursNRedirects ==
    DecidedOnTeam2Fail /\ global_loop_count <= MAX_GLOBAL_LOOPS
        => next_team_to_call = "team1"

(* C4: a run that terminates with global_loop_count = MAX_GLOBAL_LOOPS    *)
(* was ended by the manager's decision "end" with the loop-budget reason. *)
C4_LoopBudgetReason ==
    pc = END /\ global_loop_count = MAX_GLOBAL_LOOPS
        => next_team_to_call = "end" /\ manager_feedback = FEEDBACK_LOOP_LIMIT

C4_Witness ==
    /\ pc = END
    /\ global_loop_count = MAX_GLOBAL_LOOPS
    /\ Last(State).head # "fail"

C6_AttemptsBounded ==
    /\ pc \in Team1Nodes => attempts <= MAX_RETRIES_TEAM1 + 1
    /\ pc \in Team2Nodes => attempts <= MAX_RETRIES_TEAM2 + 1
    /\ pc \in Team3Nodes => attempts <= MAX_RETRIES_TEAM3 + 1

(* C7: after the evaluator's "pass" the stage's router goes to END.       *)
C7_PassEndsStage ==
    /\ pc = "decide_next_step" /\ Last(State).head = "pass"
            => decide_next_step(State) = END
    /\ pc = "retrieval_router" /\ Last(State).head = "pass"
            => retrieval_router(State) = END
    /\ pc = "decide_final_step" /\ Last(State).head = "pass"
            => decide_final_step(State) = END

(* C8: a stage hands the run to the manager only with its terminal        *)
(* verdict, "pass" or "fail", as the last message.                        *)
C8_TerminalVerdictOnly ==
    pc = "manager" => Last(State).head \in {"pass", "fail"}

(* C9: on a stage-2 terminal Fail with global_loop_count below the        *)
(* ceiling, the manager decides team1, gives a non-empty feedback and     *)
(* adds exactly 1 to global_loop_count.                                   *)
C9_BackwardRedirect ==
    [][ (/\ pc = "manager"
         /\ Last(State).name = "team2_evaluator"
         /\ Last(State).head = "fail" /\ Last(State).detail = ""
         /\ global_loop_count < MAX_GLOBAL_LOOPS)
        => /\ next_team_to_call' = "team1"
           /\ manager_feedback' \notin {None, ""}
           /\ global_loop_count' = global_loop_count + 1 ]_vars

(* C10: a stage the manager has just routed the run into starts with its  *)
(* retry counter at 0.                                                    *)
C10_FreshBudget ==
    attempts = 0 =>
        /\ pc = "process_question" => team1_retries = 0
        /\ pc = "rag_search" => team2_retries = 0
        /\ pc = "generate_answer" => team3_retries = 0

C10_Witness ==
    /\ pc = "rag_search"
    /\ attempts = 0
    /\ Last(State).name = "team2_evaluator"
    /\ Last(State).head \in {"retry_web", "fallback_to_web"}
    /\ team2_retries = 0

(* the last message of the next state *)
LastNext == messages'[Len(messages')]

IsPrefix(a, b) == Len(a) <= Len(b) /\ SubSeq(b, 1, Len(a)) = a

(* C11: the accepted evidence never shrinks: every step of a run leaves   *)
(* rag_docs and web_docs as they were or appends to them.                 *)
C11_EvidenceNeverShrinks ==
    [][IsPrefix(rag_docs, rag_docs') /\ IsPrefix(web_docs, web_docs')]_vars

C11_Witness ==
    /\ pc = "evaluate_documents"
    /\ Last(State).name = "rag_search_result"
    /\ rag_docs # <<>>
    /\ web_docs # <<>>

(* C12: accepted units accumulate exactly: an evaluate_documents step     *)
(* makes the stored evidence longer by the units it accepted, no more.    *)
C12_ExactAccumulation ==
    [][pc = "evaluate_documents" =>
        Len(rag_docs') + Len(web_docs')
            = Len(rag_docs) + Len(web_docs) + (accepted_units' - accepted_units)]_vars

(* the stage-2 evaluator has just judged an attempt *)
Team2Judged == pc = "retrieval_router" /\ Last(State).name = "team2_evaluator"

(* C13: stage 2 reports "pass" exactly when the units accepted so far     *)
(* over both sources are at least total_docs_required.                    *)
C13_PassIffQuota ==
    Team2Judged =>
        (Last(State).head = "pass" <=> accepted_units >= total_docs_required)

(* C14: the secondary source is used only once the primary is exhausted: *)
(* a stage-2 invocation starts with rag_search, and a failed primary      *)
(* attempt with retry budget left is followed by rag_search again.        *)
C14_PrimaryFirst ==
    /\ pc = "web_search" => attempts >= 1
    /\ Team2Judged /\ Last(State).head = "fallback_to_web"
            /\ team2_retries < TEAM2_GRAPH_MAX_RETRIES
        => retrieval_router(State) = "rag_search"

(* C15: an attempt whose fetch returned nothing accepts nothing, costs   *)
(* exactly one retry and is recorded with a "no candidates" reason, which *)
(* differs from what an attempt that left the quota unmet records.        *)
C15_EmptyFetchRecorded ==
    [][pc = "evaluate_documents" /\ Last(State).kw.source_docs = <<>> =>
        /\ accepted_units' = accepted_units
        /\ team2_retries' = team2_retries + 1
        /\ LastNext.kw.failed_reason \notin {"", "budget_exhausted"}]_vars

Range(f) == {f[i] : i \in DOMAIN f}

(* the batch the evaluator has just judged, and the source it came from *)
JudgedBatch == messages[Len(messages) - 1].kw.source_docs
JudgedSource ==
    IF messages[Len(messages) - 1].name = "web_search_result" THEN "web" ELSE "rag"
JudgedStore == IF JudgedSource = "web" THEN web_docs ELSE rag_docs

(* C16: a fetched unit is among the accepted evidence if and only if both *)
(* of its scores reach their thresholds and its evaluation raised no      *)
(* error, whatever the other units of the batch got.                      *)
C16_AcceptedIffBothScores ==
    pc = "retrieval_router" =>
        \A k \in Range(JudgedBatch) :
            Doc(JudgedSource, k) \in Range(JudgedStore)
                <=> /\ ~verdicts[k].raise
                    /\ verdicts[k].semantic_relevance >= semantic_relevance_THRESHOLD
                    /\ verdicts[k].is_detailed >= is_detailed_THRESHOLD

C16_Witness ==
    /\ pc = "retrieval_router"
    /\ \E a, b, c \in Range(JudgedBatch) :
        /\ verdicts[a].raise
        /\ ~verdicts[b].raise /\ verdicts[b].is_detailed < is_detailed_THRESHOLD
        /\ verdicts[b].semantic_relevance >= semantic_relevance_THRESHOLD
        /\ Doc(JudgedSource, c) \in Range(JudgedStore)
        /\ Doc(JudgedSource, a) \notin Range(JudgedStore)
        /\ Doc(JudgedSource, b) \notin Range(JudgedStore)

(* C17: the order of the batch does not matter: the evaluation of any     *)
(* arrangement accepts the same set of units, takes the same decision and *)
(* leaves the same retry counter as that of the batch in rank order.      *)
C17_OrderIrrelevant ==
    [][pc = "evaluate_documents" =>
        LET \* the state in which the last message lists its documents in
            \* rank order
            Rearranged ==
                [State EXCEPT !.messages[Len(messages)].kw.source_docs =
                    fetched(Len(Last(State).kw.source_docs))]
            alt == evaluate_documents(Rearranged, verdicts')
        IN  /\ alt.messages = <<LastNext>>
            /\ alt.team2_retries = team2_retries'
            /\ Range(rag_docs \o alt.rag_docs) = Range(rag_docs')
            /\ Range(web_docs \o alt.web_docs) = Range(web_docs')
            /\ Len(rag_docs \o alt.rag_docs) = Len(rag_docs')
            /\ Len(web_docs \o alt.web_docs) = Len(web_docs')]_vars

C17_Witness ==
    /\ pc = "retrieval_router"
    /\ Len(JudgedBatch) >= 3
    /\ JudgedBatch # fetched(Len(JudgedBatch))
    /\ is_pass(verdicts[JudgedBatch[Len(JudgedBatch)]])
    /\ ~is_pass(verdicts[JudgedBatch[1]])
    /\ Last(State).head = "pass"

(* the manager has decided on the verdict that a stage returned *)
DecidedOn(name, verdict) ==
    /\ pc = "route_from_manager"
    /\ Last(State).name = name
    /\ Last(State).head = verdict

(* C18: a terminal fail of stage 1 or of stage 3 ends the run: once the   *)
(* manager has decided on a "fail" of team1_evaluator or final_evaluator  *)
(* its decision is "end", never a stage.                                  *)
C18_TerminalFailEnds ==
    (DecidedOn("team1_evaluator", "fail") \/ DecidedOn("final_evaluator", "fail"))
        => next_team_to_call = "end"

(* C19: on a pass the manager advances in stage order: its decision on a  *)
(* team1 pass is team2, on a team2 pass team3 and on a final pass "end"   *)
(* (a decision "end" forced by a failing manager call starts no stage     *)
(* and is allowed everywhere).                                            *)
C19_StageOrderOnPass ==
    /\ DecidedOn("team1_evaluator", "pass") => next_team_to_call \in {"team2", "end"}
    /\ DecidedOn("team2_evaluator", "pass") => next_team_to_call \in {"team3", "end"}
    /\ DecidedOn("final_evaluator", "pass") => next_team_to_call = "end"

(* C20: when the upstream classifier answers "Yes" (no retrieval needed)  *)
(* no step of the run enters a node of stage 2 and team2_retries, once 0, *)
(* stays 0.                                                               *)
C20_SimpleQuerySkipsStage2 ==
    [][is_simple_query = "Yes"
        => /\ pc' \notin Team2Nodes
           /\ team2_retries = 0 => team2_retries' = 0]_vars

(* ======================= the entry point ======================= *)
NO_ANSWER == "Failed to generate answer."

(* the content of the last AIMessage of the final state, if there is one *)
last_ai_content(S) ==
    IF \E i \in 1..Len(S.messages) : IsAI(S.messages[i])
    THEN S.messages[CHOOSE i \in 1..Len(S.messages) :
            IsLastOf(S.messages, i, IsAI)].head
    ELSE NO_ANSWER

(* what ask_agent returns for a run whose invoke returned the state S:     *)
(* the success flag is the constant True of the try branch               *)
ask_agent(S) ==
    [final_answer |-> last_ai_content(S), answer_generation_successful |-> TRUE]

(* C21: at the end of a run ask_agent reports success exactly when the    *)
(* run ended on a stage-3 pass, and the answer it returns is then the     *)
(* answer that passed: never a success for a terminal fail or a loop      *)
(* budget termination, never an intermediate message as the answer.      *)
C21_AnswerOrFailure ==
    LET \* the run ended on an answer that the stage-3 evaluator passed
        EndedOnPassedAnswer ==
            /\ Last(State).name = "final_evaluator"
            /\ Last(State).head = "pass"
            /\ messages[Len(messages) - 1].type = "ai"
    IN  pc = END =>
            /\ ask_agent(State).answer_generation_successful <=> EndedOnPassedAnswer
            /\ EndedOnPassedAnswer =>
                    ask_agent(State).final_answer = messages[Len(messages) - 1].head

(* C22: the manager's feedback is one-shot: the worker step that reads a  *)
(* feedback (process_question or generate_answer with a non-empty         *)
(* manager_feedback) leaves the field cleared, so that no later worker    *)
(* step reads it again.                                                   *)
C22_FeedbackOneShot ==
    [][(pc \in {"process_question", "generate_answer"} /\ truthy(manager_feedback))
        => manager_feedback' = None]_vars

(* the evaluator's reason that a worker puts into its prompt: the text    *)
(* after "retry:" of the last message, when that message is a "retry" of  *)
(* the stage's evaluator                                                  *)
internal_feedback(S, evaluator) ==
    IF /\ Last(S).type = "tool"
       /\ Last(S).name = evaluator
       /\ Last(S).head = "retry"
    THEN Last(S).detail
    ELSE ""

(* C23: a worker that runs again within a stage invocation, after a       *)
(* failed attempt, receives the evaluator's reason for the failure,       *)
(* whatever the failure was.                                              *)
C23_RetryCarriesReason ==
    /\ (pc = "process_question" /\ attempts >= 1)
            => internal_feedback(State, "team1_evaluator") # ""
    /\ (pc = "generate_answer" /\ attempts >= 1)
            => internal_feedback(State, "final_evaluator") # ""

Teams == {"team1", "team2", "team3"}
SupervisorOf ==
    [team1 |-> "team1_supervisor", team2 |-> "team2_supervisor",
     team3 |-> "team3_supervisor"]
StageEvaluators ==
    {"team1_evaluator", "team2_evaluator", "team3_evaluator", "final_evaluator"}

C25_FailureConsumesBudget ==
    [][LET CollaboratorFailure ==
               /\ LastNext.head \in {"retry", "fail"}
               /\ LastNext.detail \in
                    {"no analysis result", "no answer to evaluate",
                     "missing information", "Team1 Evaluator error",
                     "Team3 Evaluator error", ""}
       IN  /\ (pc = "evaluate_question" /\ CollaboratorFailure)
                => team1_retries' = team1_retries + 1
           /\ (pc = "evaluate_answer" /\ CollaboratorFailure)
                => team3_retries' = team3_retries + 1]_vars

(* C26: global_loop_count never decreases and changes only in a manager   *)
(* step that decides the backward transition from a stage-2 outcome to    *)
(* team1, where it grows by exactly 1.                                    *)
C26_LoopCountFrame ==
    [][/\ global_loop_count' >= global_loop_count
       /\ global_loop_count' # global_loop_count
            => /\ pc = "manager"
               /\ Last(State).name = "team2_evaluator"
               /\ next_team_to_call' = "team1"
               /\ global_loop_count' = global_loop_count + 1]_vars

(* the number of evaluator outcome records in a history *)
outcome_records(s) ==
    Len(SelectSeq(s, LAMBDA m : m.type = "tool" /\ m.name \in StageEvaluators))

(* C27: the history is append-only: every step leaves the records already *)
(* in the history in place, an evaluator step appends exactly one record, *)
(* an evaluator outcome, and no other step appends an evaluator outcome.  *)
C27_HistoryAppendOnly ==
    [][LET EvaluatorNodes ==
               {"evaluate_question", "evaluate_documents", "evaluate_answer"}
       IN  /\ IsPrefix(messages, messages')
           /\ pc \in EvaluatorNodes
                => /\ Len(messages') = Len(messages) + 1
                   /\ outcome_records(messages') = outcome_records(messages) + 1
           /\ pc \notin EvaluatorNodes
                => outcome_records(messages') = outcome_records(messages)]_vars

C27_Witness ==
    /\ pc = "decide_next_step"
    /\ outcome_records(messages) >= 2

(* C29: the manager ends a run only for a stage-3 pass, for a terminal    *)
(* fail of stage 1 or of stage 3, or for the loop-budget override:        *)
(* whenever the route taken from the manager is "end", one of them holds. *)
C29_EndOnlyForCause ==
    (pc = "route_from_manager" /\ route_from_manager(State) = "end")
        => \/ Last(State).name = "final_evaluator" /\ Last(State).head = "pass"
           \/ Last(State).name \in {"team1_evaluator", "final_evaluator"}
                    /\ Last(State).head = "fail"
           \/ manager_feedback = FEEDBACK_LOOP_LIMIT

(* C30: no stage executes under an invalid configuration: once the        *)
(* stage-1 worker has run, every budget of the configuration is           *)
(* non-negative.                                                          *)
C30_InvalidConfigFailsFast ==
    pc = "evaluate_question"
        => /\ config.MAX_RETRIES_TEAM1 >= 0
           /\ config.MAX_RETRIES_TEAM2 >= 0
           /\ config.MAX_RETRIES_TEAM3 >= 0
           /\ config.MAX_GLOBAL_LOOPS >= 0

(* C31: the primary and the secondary attempts of stage 2 share one       *)
(* counter: an evaluation that does not pass adds exactly 1 to            *)
(* team2_retries whichever source produced the batch, a pass sets it to   *)
(* 0, the verdict is "fail" exactly when the incremented counter reaches  *)
(* MAX_RETRIES_TEAM2, and the searches and the router between them leave  *)
(* the counter as it is.                                                  *)
C31_SharedCounter ==
    [][/\ pc = "evaluate_documents"
            => /\ LastNext.head = "pass" => team2_retries' = 0
               /\ LastNext.head # "pass" => team2_retries' = team2_retries + 1
               /\ LastNext.head = "fail"
                    <=> /\ LastNext.head # "pass"
                        /\ team2_retries' = MAX_RETRIES_TEAM2
       /\ pc \in {"rag_search", "web_search", "retrieval_router"}
            => team2_retries' = team2_retries]_vars

C31_Witness ==
    /\ pc = "retrieval_router"
    /\ Last(State).name = "team2_evaluator"
    /\ Last(State).head = "fail"
    /\ team2_retries = MAX_RETRIES_TEAM2

(* C32: on a stage-1 pass the search directive (best_rag_query in the     *)
(* stage graph, rag_query in the supervisor) is the worker's candidate    *)
(* with the highest evaluator score, the first such candidate on ties; a  *)
(* stage-1 attempt that does not pass leaves the directive as it was.     *)
C32_BestQuerySelected ==
    [][LET \* q is the first of the candidates with the highest score
           Selected(q, candidates, scores) ==
               /\ Len(scores) = Len(candidates)
               /\ \E i \in 1..Len(candidates) :
                    /\ q = candidates[i]
                    /\ \A j \in 1..Len(scores) : scores[j] <= scores[i]
                    /\ \A j \in 1..(i - 1) : scores[j] < scores[i]
       IN  /\ pc = "evaluate_question"
                => IF LastNext.head = "pass"
                   THEN Selected(best_rag_query', Last(State).kw.rag_queries,
                                 verdicts')
                   ELSE best_rag_query' = best_rag_query
           /\ legacy.node = "team1_supervisor"
                => IF legacy'.node = "chief_supervisor"
                        /\ legacy'.status.team1 = "pass"
                   THEN Selected(legacy'.rag_query, legacy'.rag_queries,
                                 legacy'.rag_query_scores)
                   ELSE legacy'.rag_query = legacy.rag_query]_vars

C32_Witness ==
    /\ pc = "decide_next_step"
    /\ Last(State).head = "pass"
    /\ verdicts = <<90, 90>>
    /\ best_rag_query = "rq1"

(* C33: the value the manager wrote to next_team_to_call is one of team1, *)
(* team2, team3 and end, so that the key route_from_manager returns is a  *)
(* key of the conditional-edge map.                                       *)
C33_NextTeamInRange ==
    pc = "route_from_manager"
        => /\ next_team_to_call \in {"team1", "team2", "team3", "end"}
           /\ edge_of(route_from_manager(State)) # "KeyError"

(* C34: supervisor_team2 searches the vector store at most max_attempts   *)
(* times and the web at most max_attempts times, the web only after every *)
(* vector-store attempt was rejected; each search is followed by one      *)
(* evaluation; the function goes on as long as the evaluations reject,    *)
(* returns with status pass at the first evaluation that accepts, with    *)
(* no search after it, and returns with status fail once all              *)
(* 2 * max_attempts attempts were rejected.                               *)
C34_RagThenWeb ==
    LET calls == legacy.calls
        in_team2 == legacy.node = "team2_supervisor"
        \* the searches and evaluations of a run in which every attempt fails
        all_rejected ==
            [i \in 1..(4 * max_attempts) |->
                IF i % 2 = 0 THEN "reject"
                ELSE IF i < 2 * max_attempts THEN "rag" ELSE "web"]
        Rejected(n) == calls = SubSeq(all_rejected, 1, 2 * n)
        Accepted(n) == calls = Append(SubSeq(all_rejected, 1, 2 * n - 1), "accept")
    IN  (in_team2 \/ (calls # <<>> /\ calls[1] = "rag"))
            => \/ \E n \in 0..(2 * max_attempts - 1) : Rejected(n) /\ in_team2
               \/ /\ Rejected(2 * max_attempts)
                  /\ ~in_team2
                  /\ legacy.status.team2 = "fail"
               \/ \E n \in 1..(2 * max_attempts) :
                    /\ Accepted(n)
                    /\ ~in_team2
                    /\ legacy.status.team2 = "pass"

C34_Witness ==
    /\ legacy.node = "chief_supervisor"
    /\ legacy.status.team2 = "pass"
    /\ legacy.calls =
            <<"rag", "reject", "rag", "reject", "web", "reject", "web", "accept">>

(* C35: supervisor_team1 and supervisor_team3 run their worker at most    *)
(* max_attempts times and always return: every iteration runs the worker  *)
(* once, goes on only while fewer than max_attempts runs were made, and   *)
(* otherwise returns with the team's status set to pass or to fail; a     *)
(* return with status pass leaves error_message empty.                    *)
C35_BoundedAttempts ==
    [][LET runs(L) == Len(SelectSeq(L.calls, LAMBDA c : c = "agent"))
       IN  \A t \in {"team1", "team3"} :
            legacy.node = SupervisorOf[t]
                => /\ runs(legacy') = runs(legacy) + 1
                   /\ runs(legacy') <= max_attempts
                   /\ IF legacy'.node = "chief_supervisor"
                      THEN /\ legacy'.status[t] \in {"pass", "fail"}
                           /\ legacy'.status[t] = "pass"
                                => legacy'.error_message = ""
                      ELSE /\ legacy'.node = SupervisorOf[t]
                           /\ runs(legacy') < max_attempts]_vars

C35_Witness ==
    /\ legacy.node = "chief_supervisor"
    /\ legacy.status.team1 = "pass"
    /\ legacy.error_message = ""
    /\ legacy.calls = <<"agent", "agent", "eval">>

(* C36: supervisor_team2 never returns with status pass on an attempt     *)
(* whose search found no document: when the accepted attempt searched the *)
(* vector store rag_docs is not empty, when it searched the web web_docs  *)
(* is not empty.                                                          *)
C36_NoPassOnEmptyResult ==
    LET calls == legacy.calls
        n == Len(calls)
    IN  (/\ legacy.node = "chief_supervisor"
         /\ n >= 2
         /\ calls[n] = "accept")
            => /\ legacy.status.team2 = "pass"
               /\ calls[n - 1] = "rag" => legacy.rag_docs # <<>>
               /\ calls[n - 1] = "web" => legacy.web_docs # <<>>

(* C37: entered without a search directive (rag_query empty or blank),    *)
(* supervisor_team2 returns at once with status fail and a non-empty      *)
(* error_message: it runs no search and no evaluation and leaves rag_docs *)
(* and web_docs as they were.                                             *)
C37_NoDirectiveFailsAtOnce ==
    [][(legacy.node = "team2_supervisor" /\ legacy.rag_query \in {"", " "})
        => /\ legacy'.node = "chief_supervisor"
           /\ legacy'.status.team2 = "fail"
           /\ legacy'.error_message # ""
           /\ legacy'.calls = legacy.calls
           /\ legacy'.rag_docs = legacy.rag_docs
           /\ legacy'.web_docs = legacy.web_docs]_vars

C37_Witness ==
    /\ legacy.node = "chief_supervisor"
    /\ legacy.rag_query = " "
    /\ legacy.status.team2 = "fail"
    /\ legacy.error_message = Team2Messages.NO_QUERY
    /\ legacy.calls = <<>>

(* C38: chief_supervisor_router changes next_node and nothing else of the *)
(* state dict: next_node becomes the next_node of the decision, "end"     *)
(* when the decision has none and "end" when the decision step raises;    *)
(* status, error_message, the documents and every other key stay as they  *)
(* were.                                                                  *)
C38_RouterFrame ==
    [][legacy.node = "chief_supervisor"
        => LET d == legacy'.decision
               \* the state dict without next_node and without the position
               \* and the record of the decision, which are not keys of it
               rest(L) == [L EXCEPT !.next_node = None, !.node = None,
                                    !.decision = legacy.decision]
           IN  /\ legacy'.next_node =
                    IF d.raise \/ d.next_node = "absent" THEN "end"
                    ELSE d.next_node
               /\ rest(legacy') = rest(legacy)]_vars

C38_Witness ==
    /\ legacy.node = "route_from_chief"
    /\ legacy.decision.raise
    /\ legacy.next_node = "end"
    /\ legacy.status.team2 = "fail"
    /\ legacy.error_message # ""
    /\ legacy.web_docs # <<>>

====
